---- MODULE Spec2Model ----
(***************************************************************************)
(* Decoders of the Spektr-RG targeting (CU) and measurement (ITNP) files,  *)
(* the targeting validator, the fixed-column text renderer, and the tabs   *)
(* of the main window that shows the rendered files.                       *)
(*                                                                         *)
(* Files are byte sequences (bytes are 0..255).  struct.unpack is modelled *)
(* byte by byte, little-endian.  A Python int is a TLA+ integer; the files *)
(* that are enumerated hold int64 values of the signed 32-bit range only.  *)
(* A Python float is the record [cls, neg, mag8]: cls is "fin", "inf" or   *)
(* "nan", neg the sign bit, mag8 the magnitude in eighths (IEEE-754        *)
(* doubles that are multiples of 1/8 are decoded exactly; every other bit  *)
(* pattern decodes to cls "other").  None is <<>>, a set field v is <<v>>. *)
(***************************************************************************)
EXTENDS Integers, Sequences, FiniteSets, TLC

VARIABLES cu, itnp, call, win

vars == <<cu, itnp, call, win>>

None == <<>>
Some(v) == <<v>>

RECURSIVE Pow2(_)
Pow2(n) == IF n <= 0 THEN 1 ELSE 2 * Pow2(n - 1)

Min(a, b) == IF a < b THEN a ELSE b

Bit(byte, k) == (byte \div Pow2(k)) % 2

(***************************************************************************)
(* Exceptions and results.  A call returns [exc |-> "", v |-> value] or    *)
(* raises: [exc |-> its class, v |-> None].                                *)
(***************************************************************************)
Ok(v) == [exc |-> "", v |-> v]
Raise(e) == [exc |-> e, v |-> None]

(***************************************************************************)
(* file.read(n) at position pos: at most n bytes, fewer at end of file.    *)
(***************************************************************************)
FileRead(data, pos, n) == SubSeq(data, pos + 1, Min(pos + n, Len(data)))

(* bytes[a:b] of Python for 0 <= a, with b either >= 0 or counted from the end *)
Slice(b, from, to) ==
  LET hi == IF to < 0 THEN Len(b) + to ELSE Min(to, Len(b))
  IN SubSeq(b, from + 1, hi)

(***************************************************************************)
(* struct: 'h' (int16), 'q' (int64), 'd' (float64), little-endian.         *)
(***************************************************************************)
S16(b) == LET u == b[1] + 256 * b[2] IN IF u >= 32768 THEN u - 65536 ELSE u

(* int64: the low four bytes give the value when the high four extend the sign *)
S64(b) ==
  LET hi == IF b[4] >= 128 THEN b[4] - 256 ELSE b[4]
      ext == IF b[4] >= 128 THEN 255 ELSE 0
  IN IF \A i \in 5..8 : b[i] = ext
     THEN b[1] + 256 * b[2] + 65536 * b[3] + 16777216 * hi
     ELSE IF b[8] >= 128 THEN -2147483647 - 1 ELSE 2147483647

Float(cls, neg, mag8) == [cls |-> cls, neg |-> neg, mag8 |-> mag8]
NaN == Float("nan", FALSE, 0)
Inf(neg) == Float("inf", neg, 0)
Fin(n8) == Float("fin", n8 < 0, IF n8 < 0 THEN -n8 ELSE n8)

(* IEEE-754 binary64: sign 1 bit, exponent 11 bits, fraction 52 bits *)
F64(b) ==
  LET neg == b[8] >= 128
      e == (b[8] % 128) * 16 + (b[7] \div 16)
      m12 == (b[7] % 16) * 256 + b[6]
      low0 == \A i \in 1..5 : b[i] = 0
      sig == 4096 + m12
      sh == e - 1032
  IN IF e = 2047 THEN (IF m12 = 0 /\ low0 THEN Inf(neg) ELSE NaN)
     ELSE IF e = 0 THEN (IF m12 = 0 /\ low0 THEN Float("fin", neg, 0)
                         ELSE Float("other", neg, 0))
     ELSE IF ~low0 THEN Float("other", neg, 0)
     ELSE IF sh >= 0 THEN (IF sh <= 17 THEN Float("fin", neg, sig * Pow2(sh))
                           ELSE Float("other", neg, 0))
     ELSE IF sh >= -12 /\ sig % Pow2(-sh) = 0
          THEN Float("fin", neg, sig \div Pow2(-sh))
          ELSE Float("other", neg, 0)

FmtSize(c) == IF c = "h" THEN 2 ELSE 8

RECURSIVE CalcSize(_)
CalcSize(fmt) == IF fmt = <<>> THEN 0 ELSE FmtSize(Head(fmt)) + CalcSize(Tail(fmt))

UnpackOne(c, b) == IF c = "h" THEN S16(b) ELSE IF c = "q" THEN S64(b) ELSE F64(b)

RECURSIVE UnpackFrom(_, _, _)
UnpackFrom(fmt, b, pos) ==
  IF fmt = <<>> THEN <<>>
  ELSE LET n == FmtSize(Head(fmt))
       IN <<UnpackOne(Head(fmt), SubSeq(b, pos + 1, pos + n))>>
          \o UnpackFrom(Tail(fmt), b, pos + n)

(* struct.unpack(fmt, b): struct.error unless b has exactly calcsize(fmt) bytes *)
Unpack(fmt, b) ==
  IF Len(b) # CalcSize(fmt) THEN Raise("struct.error") ELSE Ok(UnpackFrom(fmt, b, 0))

(***************************************************************************)
(* datetime(year, month, day, hour, minute, second, microsecond)           *)
(***************************************************************************)
IsLeap(y) == (y % 4 = 0) /\ ((y % 100 # 0) \/ (y % 400 = 0))

DaysInMonth(y, m) ==
  IF m = 2 THEN (IF IsLeap(y) THEN 29 ELSE 28)
  ELSE IF m \in {4, 6, 9, 11} THEN 30 ELSE 31

datetime(y, mo, d, h, mi, s, us) ==
  IF /\ y \in 1..9999 /\ mo \in 1..12 /\ d >= 1 /\ d <= DaysInMonth(y, mo)
     /\ h \in 0..23 /\ mi \in 0..59 /\ s \in 0..59 /\ us \in 0..999999
  THEN Ok([year |-> y, month |-> mo, day |-> d, hour |-> h, minute |-> mi,
           second |-> s, microsecond |-> us])
  ELSE Raise("ValueError")

(* SrgCuFile._systemtime and SrgItnpFile._systemtime (the same code) *)
systemtime(buffer_16) ==
  IF Len(buffer_16) # 16 THEN Raise("AssertionError")
  ELSE LET dt == Unpack(<<"h", "h", "h", "h", "h", "h", "h", "h">>, buffer_16).v
       IN datetime(dt[1], dt[2], dt[4], dt[5], dt[6], dt[7], dt[8] \div 1000)

(***************************************************************************)
(* Dataclass construction Record(t, data...): positional arguments are       *)
(* bound to the fields in their declared order.                            *)
(***************************************************************************)
Dataclass(fields, args) ==
  [n \in {fields[i] : i \in 1..Len(fields)} |->
     args[CHOOSE i \in 1..Len(fields) : fields[i] = n]]

(***************************************************************************)
(* SrgCuFile                                                               *)
(***************************************************************************)
CuRecordFields ==
  <<"time", "az", "el", "req_span", "req_dis", "req_vel", "req_acc",
    "req_nd1i", "req_nd2i", "req_n2i", "req_n3i",
    "res_del", "res_dis", "res_vel", "res_acc", "res_n2rj", "res_n3rj">>

CuRecordSize == 144

CuRecordFmt ==
  <<"d", "d", "d", "d", "d", "d", "q", "q", "q", "q", "d", "d", "d", "d", "q", "q">>

(* SrgCuFile.__init__(None) *)
CuInit ==
  [nip |-> None, spacecraft |-> None, seans |-> None, begin |-> None,
   end |-> None, ns |-> None, ng1 |-> None, records |-> <<>>]

(* SrgCuFile._record *)
cu_record(buffer_144) ==
  IF Len(buffer_144) # CuRecordSize THEN Raise("AssertionError")
  ELSE LET time == systemtime(Slice(buffer_144, 0, 16))
       IN IF time.exc # "" THEN Raise(time.exc)
          ELSE LET data == Unpack(CuRecordFmt, Slice(buffer_144, 16, Len(buffer_144)))
               IN IF data.exc # "" THEN Raise(data.exc)
                  ELSE Ok(Dataclass(CuRecordFields, <<time.v>> \o data.v))

(***************************************************************************)
(* The statements of read(), each on the frame [self, set, pos, exc]: the   *)
(* values assigned to the fields of self so far, the names of the fields   *)
(* assigned, the file position and the exception raised ("" for none).  A  *)
(* frame that carries an exception is passed on unchanged (the statement   *)
(* is not reached).  No statement of read() reads a field of self.         *)
(***************************************************************************)
Advance(st, data, n) == Min(st.pos + n, Len(data))

(* self.<field>, = struct.unpack('q', file.read(8)) *)
ReadQ(st, data, field) ==
  IF st.exc # "" THEN st
  ELSE LET r == Unpack(<<"q">>, FileRead(data, st.pos, 8))
       IN IF r.exc # "" THEN [st EXCEPT !.exc = r.exc, !.pos = Advance(st, data, 8)]
          ELSE [st EXCEPT !.self[field] = Some(r.v[1]), !.set = @ \cup {field},
                          !.pos = Advance(st, data, 8)]

(* self.<field> = self._systemtime(file.read(16)) *)
ReadTime(st, data, field) ==
  IF st.exc # "" THEN st
  ELSE LET r == systemtime(FileRead(data, st.pos, 16))
       IN IF r.exc # "" THEN [st EXCEPT !.exc = r.exc, !.pos = Advance(st, data, 16)]
          ELSE [st EXCEPT !.self[field] = Some(r.v), !.set = @ \cup {field},
                          !.pos = Advance(st, data, 16)]

(* file.read(n) with the result dropped (a reserved field) *)
ReadSkip(st, data, n) ==
  IF st.exc # "" THEN st ELSE [st EXCEPT !.pos = Advance(st, data, n)]

(* a loop that stops at a short last chunk instead of decoding it *)
RECURSIVE CuReadChunks_SkipPartial(_, _, _)
CuReadChunks_SkipPartial(data, pos, records) ==
  LET chunk == FileRead(data, pos, CuRecordSize)
  IN IF Len(chunk) < CuRecordSize THEN [exc |-> "", records |-> records]
     ELSE LET r == cu_record(chunk)
          IN IF r.exc # "" THEN [exc |-> r.exc, records |-> records]
             ELSE CuReadChunks_SkipPartial(data, pos + Len(chunk), Append(records, r.v))

(* for chunk in iter(lambda: file.read(144), b''): records.append(self._record(chunk)) *)
RECURSIVE CuReadChunks(_, _, _)
CuReadChunks(data, pos, records) ==
  LET chunk == FileRead(data, pos, CuRecordSize)
  IN IF chunk = <<>> THEN [exc |-> "", records |-> records]
     ELSE LET r == cu_record(chunk)
          IN IF r.exc # "" THEN [exc |-> r.exc, records |-> records]
             ELSE CuReadChunks(data, pos + Len(chunk), Append(records, r.v))

CuReadRecords(st, data) ==
  IF st.exc # "" THEN st
  ELSE LET r == CuReadChunks(data, st.pos, <<>>)
       IN IF r.exc # "" THEN [st EXCEPT !.exc = r.exc]
          ELSE [st EXCEPT !.self.records = r.records, !.set = @ \cup {"records"},
                          !.pos = Len(data)]

(* the body of the try block of SrgCuFile.read; file is None when open() fails *)
CuReadBody(file) ==
  IF file = None THEN [self |-> CuInit, set |-> {}, pos |-> 0, exc |-> "FileNotFoundError"]
  ELSE LET data == file[1]
           s0 == [self |-> CuInit, set |-> {}, pos |-> 0, exc |-> ""]
           s1 == ReadQ(s0, data, "nip")
           s2 == ReadQ(s1, data, "spacecraft")
           s3 == ReadQ(s2, data, "seans")
           s4 == ReadSkip(s3, data, 8)
           s5 == ReadTime(s4, data, "begin")
           s6 == ReadTime(s5, data, "end")
           s7 == ReadQ(s6, data, "ns")
           s8 == ReadQ(s7, data, "ng1")
           s9 == ReadSkip(s8, data, 16)
       IN CuReadRecords(s9, data)

(* self after the assignments of frame st *)
Assigned(self, st) ==
  [n \in DOMAIN self |-> IF n \in st.set THEN st.self[n] ELSE self[n]]

(* a handler that re-raises without self.__init__() *)
CuExcept_NoReset(self, st) == [self |-> Assigned(self, st), exc |-> st.exc]

(* except Exception as e: self.__init__(); raise e *)
CuExcept(self, st) ==
  IF st.exc # "" THEN [self |-> CuInit, exc |-> st.exc]
  ELSE [self |-> Assigned(self, st), exc |-> ""]

(* SrgCuFile.read *)
cu_read(self, file) == CuExcept(self, CuReadBody(file))

(***************************************************************************)
(* SrgItnpFile.  The fields of a measurement record hold values of         *)
(* different Python types, so each is kept with its type: <<"int", n>>,    *)
(* <<"float", f>>, <<"datetime", t>>.                                      *)
(***************************************************************************)
PyInt(n) == <<"int", n>>
PyFloat(f) == <<"float", f>>
PyDatetime(t) == <<"datetime", t>>

ItnpRecordFields ==
  <<"time", "di", "nd1i", "nd2i", "nsk", "dn2ri", "n3ri", "of3", "pf3",
    "rat", "pol", "ddst", "dvel", "tmp", "prs", "hmd">>

ItnpRecordSize == 136

ItnpRecordFmt == <<"q", "q", "q", "q", "q", "q", "q", "q", "d", "h">>

PyTagged(fmt, vals) ==
  [i \in 1..Len(vals) |-> IF fmt[i] = "d" THEN PyFloat(vals[i]) ELSE PyInt(vals[i])]

(* SrgItnpFile.__init__(None) *)
ItnpInit ==
  [nip |-> None, spacecraft |-> None, seans |-> None, begin |-> None,
   end |-> None, ns |-> None, ng1 |-> None, delay |-> None, records |-> <<>>]

(* SrgItnpFile._record *)
itnp_record(buffer_136) ==
  IF Len(buffer_136) # ItnpRecordSize THEN Raise("AssertionError")
  ELSE LET t == systemtime(Slice(buffer_136, 0, 16))
       IN IF t.exc # "" THEN Raise(t.exc)
          ELSE LET data == Unpack(ItnpRecordFmt, Slice(buffer_136, 16, -46))
               IN IF data.exc # "" THEN Raise(data.exc)
                  ELSE LET dost == buffer_136[Len(buffer_136) - 46 + 1]
                           ddst == PyInt(Bit(dost, 0))
                           dvel == PyInt(Bit(dost, 1))
                           env == PyTagged(<<"d", "d", "d">>,
                                    Unpack(<<"d", "d", "d">>,
                                      Slice(buffer_136, Len(buffer_136) - 24,
                                            Len(buffer_136))).v)
                           tmp == env[1]
                           prs == env[2]
                           hmd == env[3]
                       IN Ok(Dataclass(ItnpRecordFields,
                               <<PyDatetime(t.v)>> \o PyTagged(ItnpRecordFmt, data.v)
                               \o <<tmp, ddst, dvel, prs, hmd>>))

(* for chunk in iter(lambda: file.read(136), b''): records.append(self._record(chunk)) *)
RECURSIVE ItnpReadChunks(_, _, _)
ItnpReadChunks(data, pos, records) ==
  LET chunk == FileRead(data, pos, ItnpRecordSize)
  IN IF chunk = <<>> THEN [exc |-> "", records |-> records]
     ELSE LET r == itnp_record(chunk)
          IN IF r.exc # "" THEN [exc |-> r.exc, records |-> records]
             ELSE ItnpReadChunks(data, pos + Len(chunk), Append(records, r.v))

ItnpReadRecords(st, data) ==
  IF st.exc # "" THEN st
  ELSE LET r == ItnpReadChunks(data, st.pos, <<>>)
       IN IF r.exc # "" THEN [st EXCEPT !.exc = r.exc]
          ELSE [st EXCEPT !.self.records = r.records, !.set = @ \cup {"records"},
                          !.pos = Len(data)]

(* the body of the try block of SrgItnpFile.read; file is None when open() fails *)
ItnpReadBody(file) ==
  IF file = None THEN [self |-> ItnpInit, set |-> {}, pos |-> 0, exc |-> "FileNotFoundError"]
  ELSE LET data == file[1]
           s0 == [self |-> ItnpInit, set |-> {}, pos |-> 0, exc |-> ""]
           s1 == ReadQ(s0, data, "nip")
           s2 == ReadQ(s1, data, "spacecraft")
           s3 == ReadQ(s2, data, "seans")
           s4 == ReadSkip(s3, data, 8)
           s5 == ReadTime(s4, data, "begin")
           s6 == ReadTime(s5, data, "end")
           s7 == ReadQ(s6, data, "ns")
           s8 == ReadQ(s7, data, "ng1")
           s9 == ReadSkip(s8, data, 8)
           s10 == ReadQ(s9, data, "delay")
       IN ItnpReadRecords(s10, data)

(* except Exception as e: self.__init__(); raise e *)
ItnpExcept(self, st) ==
  IF st.exc # "" THEN [self |-> ItnpInit, exc |-> st.exc]
  ELSE [self |-> Assigned(self, st), exc |-> ""]

(* SrgItnpFile.read *)
itnp_read(self, file) == ItnpExcept(self, ItnpReadBody(file))

(***************************************************************************)
(* Comparisons of a float with an integer constant, as Python makes them:  *)
(* every ordered comparison with nan is False, and nan == x is False.      *)
(***************************************************************************)
FloatVal(f) == IF f.neg THEN -f.mag8 ELSE f.mag8

FLt(f, n) ==
  IF f.cls = "nan" THEN FALSE ELSE IF f.cls = "inf" THEN f.neg ELSE FloatVal(f) < 8 * n

FGt(f, n) ==
  IF f.cls = "nan" THEN FALSE ELSE IF f.cls = "inf" THEN ~f.neg ELSE FloatVal(f) > 8 * n

FLe(f, n) ==
  IF f.cls = "nan" THEN FALSE ELSE IF f.cls = "inf" THEN f.neg ELSE FloatVal(f) <= 8 * n

FEq(f, n) ==
  IF f.cls \in {"nan", "inf"} THEN FALSE ELSE FloatVal(f) = 8 * n

(* SrgCuFile.empty *)
empty(self) ==
  IF self.nip # None THEN FALSE
  ELSE IF self.spacecraft # None THEN FALSE
  ELSE IF self.seans # None THEN FALSE
  ELSE IF self.begin # None THEN FALSE
  ELSE IF self.end # None THEN FALSE
  ELSE IF self.ns # None THEN FALSE
  ELSE IF self.ng1 # None THEN FALSE
  ELSE IF Len(self.records) > 0 THEN FALSE
  ELSE TRUE

(***************************************************************************)
(* The messages of valid().  A header message is <<text>>, a record        *)
(* message f'{n} {v} (record {i+1})' is <<n, v, i + 1>>; n is the name of  *)
(* the field the message is about.                                         *)
(***************************************************************************)
err1(x) == <<FALSE, <<x>>>>
err3(n, v, i) == <<FALSE, <<n, v, i + 1>>>>
Pass == <<TRUE, None>>

(* a loop body that also bounds req_n2i, as it bounds req_n3i *)
ValidRecord_BoundsN2(r, i) ==
  IF FLt(r.az, 0) \/ FGt(r.az, 360) THEN err3("az", r.az, i)
  ELSE IF FLt(r.el, 0) \/ FGt(r.el, 90) THEN err3("el", r.el, i)
  ELSE IF FLe(r.req_span, 0) THEN err3("req_span", r.req_span, i)
  ELSE IF FLe(r.req_dis, 0) THEN err3("req_dis", r.req_dis, i)
  ELSE IF FEq(r.req_vel, 0) THEN err3("req_vel", r.req_vel, i)
  ELSE IF FLe(r.req_acc, 0) THEN err3("req_acc", r.req_acc, i)
  ELSE IF r.req_nd1i < -32768 \/ r.req_nd1i > 32767 THEN err3("req_nd1i", r.req_nd1i, i)
  ELSE IF r.req_nd2i < -32768 \/ r.req_nd2i > 32767 THEN err3("req_nd2i", r.req_nd2i, i)
  ELSE IF r.req_n2i < -131072 \/ r.req_n2i > 131071 THEN err3("req_n2i", r.req_n2i, i)
  ELSE IF r.req_n3i < -131072 \/ r.req_n3i > 131071 THEN err3("req_n3i", r.req_n3i, i)
  ELSE IF FLe(r.res_del, 0) THEN err3("res_del", r.res_del, i)
  ELSE IF FLe(r.res_dis, 0) THEN err3("res_dis", r.res_dis, i)
  ELSE IF FEq(r.res_vel, 0) THEN err3("res_vel", r.res_vel, i)
  ELSE IF FLe(r.res_acc, 0) THEN err3("res_acc", r.res_acc, i)
  ELSE IF r.res_n3rj < -131072 \/ r.res_n3rj > 131071 THEN err3("res_n3rj", r.res_n3rj, i)
  ELSE Pass

(* the body of the loop of valid() for record r at 0-based index i: the first
   failing rule's result, or Pass when the loop goes on *)
ValidRecord(r, i) ==
  IF FLt(r.az, 0) \/ FGt(r.az, 360) THEN err3("az", r.az, i)
  ELSE IF FLt(r.el, 0) \/ FGt(r.el, 90) THEN err3("el", r.el, i)
  ELSE IF FLe(r.req_span, 0) THEN err3("req_span", r.req_span, i)
  ELSE IF FLe(r.req_dis, 0) THEN err3("req_dis", r.req_dis, i)
  ELSE IF FEq(r.req_vel, 0) THEN err3("req_vel", r.req_vel, i)
  ELSE IF FLe(r.req_acc, 0) THEN err3("req_acc", r.req_acc, i)
  ELSE IF r.req_nd1i < -32768 \/ r.req_nd1i > 32767 THEN err3("req_nd1i", r.req_nd1i, i)
  ELSE IF r.req_nd2i < -32768 \/ r.req_nd2i > 32767 THEN err3("req_nd2i", r.req_nd2i, i)
  ELSE IF r.req_n3i < -131072 \/ r.req_n3i > 131071 THEN err3("req_n3i", r.req_n3i, i)
  ELSE IF FLe(r.res_del, 0) THEN err3("res_del", r.res_del, i)
  ELSE IF FLe(r.res_dis, 0) THEN err3("res_dis", r.res_dis, i)
  ELSE IF FEq(r.res_vel, 0) THEN err3("res_vel", r.res_vel, i)
  ELSE IF FLe(r.res_acc, 0) THEN err3("res_acc", r.res_acc, i)
  ELSE IF r.res_n3rj < -131072 \/ r.res_n3rj > 131071 THEN err3("res_n3rj", r.res_n3rj, i)
  ELSE Pass

(* for i, r in enumerate(self.records): ...; return True, None *)
RECURSIVE ValidRecords(_, _)
ValidRecords(records, i) ==
  IF i >= Len(records) THEN Pass
  ELSE LET v == ValidRecord(records[i + 1], i)
       IN IF v # Pass THEN v ELSE ValidRecords(records, i + 1)

(* a validator without the check of line 124: a document without records
   falls through the loop to return True, None *)
valid_NoRecordsCheck(self) ==
  IF empty(self) THEN err1("uninitialized")
  ELSE IF self.nip = None THEN err1("no nip")
  ELSE IF self.spacecraft = None THEN err1("no spacecraft")
  ELSE IF self.seans = None THEN err1("no seans")
  ELSE IF self.begin = None THEN err1("no begin")
  ELSE IF self.end = None THEN err1("no end")
  ELSE IF self.ns = None THEN err1("no ns")
  ELSE IF self.ng1 = None THEN err1("no ng1")
  ELSE ValidRecords(self.records, 0)

(* SrgCuFile.valid *)
valid(self) ==
  IF empty(self) THEN err1("uninitialized")
  ELSE IF self.nip = None THEN err1("no nip")
  ELSE IF self.spacecraft = None THEN err1("no spacecraft")
  ELSE IF self.seans = None THEN err1("no seans")
  ELSE IF self.begin = None THEN err1("no begin")
  ELSE IF self.end = None THEN err1("no end")
  ELSE IF self.ns = None THEN err1("no ns")
  ELSE IF self.ng1 = None THEN err1("no ng1")
  ELSE IF Len(self.records) = 0 THEN err1("no records")
  ELSE ValidRecords(self.records, 0)

(***************************************************************************)
(* Text.  A str is a string; Len and \o are its length and concatenation.  *)
(***************************************************************************)
Digit(d) == <<"0", "1", "2", "3", "4", "5", "6", "7", "8", "9">>[d + 1]

RECURSIVE NatStr(_)
NatStr(n) == IF n < 10 THEN Digit(n) ELSE NatStr(n \div 10) \o Digit(n % 10)

(* str(n) of an int *)
IntStr(n) == IF n < 0 THEN "-" \o NatStr(-n) ELSE NatStr(n)

RECURSIVE Blank(_, _)
Blank(c, n) == IF n <= 0 THEN "" ELSE c \o Blank(c, n - 1)

(* a format width is a minimum: a longer text is written whole *)
PadLeft(txt, width, c) == Blank(c, width - Len(txt)) \o txt
PadRight(txt, width, c) == txt \o Blank(c, width - Len(txt))

(* '{:<wd}', '{:-wd}' *)
FmtIntLeft(n, width) == PadRight(IntStr(n), width, " ")
FmtInt(n, width) == PadLeft(IntStr(n), width, " ")

(* '{:w.pf}' for p >= 3: a multiple of 1/8 has three exact decimals *)
FmtFloat(f, width, prec) ==
  LET sign == IF f.neg THEN "-" ELSE ""
      body == IF f.cls = "nan" THEN "nan"
              ELSE IF f.cls = "inf" THEN sign \o "inf"
              ELSE sign \o NatStr(f.mag8 \div 8) \o "."
                   \o PadLeft(NatStr((f.mag8 % 8) * 125), 3, "0") \o Blank("0", prec - 3)
  IN PadLeft(body, width, " ")

(* '{:w}' with a str *)
FmtStr(txt, width) == PadRight(txt, width, " ")

(* datetime.strftime('%Y-%m-%d %H:%M:%S'), years of four digits *)
strftime(t) ==
  PadLeft(NatStr(t.year), 4, "0") \o "-" \o PadLeft(NatStr(t.month), 2, "0")
  \o "-" \o PadLeft(NatStr(t.day), 2, "0") \o " "
  \o PadLeft(NatStr(t.hour), 2, "0") \o ":" \o PadLeft(NatStr(t.minute), 2, "0")
  \o ":" \o PadLeft(NatStr(t.second), 2, "0")

RECURSIVE JoinSp(_)
JoinSp(cols) ==
  IF Len(cols) = 0 THEN ""
  ELSE IF Len(cols) = 1 THEN cols[1]
  ELSE cols[1] \o " " \o JoinSp(Tail(cols))

(* the declared column widths of the table *)
ColumnWidths == <<5, 19, 7, 6, 5, 17, 11, 8, 6, 6, 7, 7, 5, 17, 11, 8, 7, 7>>

(* the column labels; "#" stands for the one-character numero sign *)
ColumnLabels ==
  <<"#", "time", "az", "el", "t_sc", "r", "v", "a", "Nd1i", "Nd2i", "N2i", "N3i",
    "t_del", "r", "v", "a", "N2rj", "N3rj">>

(* the column-header line of write_txt_with (without its newline) *)
HeaderLine ==
  JoinSp([k \in 1..Len(ColumnLabels) |-> FmtStr(ColumnLabels[k], ColumnWidths[k])])

(* the 18 fields of the data line of record r at 0-based index i, as formatted *)
DataFields(r, i) ==
  << FmtIntLeft(i + 1, 5), strftime(r.time),
     FmtFloat(r.az, 7, 3), FmtFloat(r.el, 6, 3), FmtFloat(r.req_span, 5, 3),
     FmtFloat(r.req_dis, 17, 6), FmtFloat(r.req_vel, 11, 6), FmtFloat(r.req_acc, 8, 6),
     FmtInt(r.req_nd1i, 6), FmtInt(r.req_nd2i, 6), FmtInt(r.req_n2i, 7),
     FmtInt(r.req_n3i, 7), FmtFloat(r.res_del, 5, 3), FmtFloat(r.res_dis, 17, 6),
     FmtFloat(r.res_vel, 11, 6), FmtFloat(r.res_acc, 8, 6),
     FmtInt(r.res_n2rj, 7), FmtInt(r.res_n3rj, 7) >>

(* the data line of record r (without its newline) *)
DataLine(r, i) == JoinSp(DataFields(r, i))

(* f'{x}' of an int field that may be None *)
OptStr(x) == IF x = None THEN "None" ELSE IntStr(x[1])

(* SrgCuFile.write_txt_with: the lines written; None.strftime raises *)
write_txt_with(self) ==
  IF self.begin = None \/ self.end = None THEN Raise("AttributeError")
  ELSE Ok(<< "NIP   " \o OptStr(self.nip),
             "SC    " \o OptStr(self.spacecraft),
             "Seans " \o OptStr(self.seans),
             "Begin " \o strftime(self.begin[1]),
             "End   " \o strftime(self.end[1]),
             "Ns    " \o OptStr(self.ns),
             "Ng1   " \o OptStr(self.ng1),
             "",
             HeaderLine >>
          \o [k \in 1..Len(self.records) |-> DataLine(self.records[k], k - 1)])

(* SrgCuFile.write_str *)
write_str(self) == write_txt_with(self)

(***************************************************************************)
(* The files on disk.  A file is described by [hdr, recs, len]: the header *)
(* values CuHeaderVals[hdr] (ItnpHeaderVals[hdr]), the records             *)
(* CuRecordVals[recs[k]] (ItnpRecordVals[recs[k]]), laid out as read()     *)
(* consumes them and cut to its first len bytes; hdr = 0 is a path that    *)
(* cannot be opened.  The packers write what struct.unpack reads.          *)
(***************************************************************************)
PackH(v) == LET u == IF v < 0 THEN v + 65536 ELSE v IN <<u % 256, u \div 256>>

PackQ(v) ==
  LET w == IF v < 0 THEN v + 2147483647 + 1 ELSE v
      ext == IF v < 0 THEN 255 ELSE 0
  IN <<w % 256, (w \div 256) % 256, (w \div 65536) % 256,
       (w \div 16777216) + (IF v < 0 THEN 128 ELSE 0), ext, ext, ext, ext>>

RECURSIVE Norm13(_, _)
Norm13(m, sh) ==
  IF m >= 8192 THEN Norm13(m \div 2, sh + 1)
  ELSE IF m < 4096 THEN Norm13(m * 2, sh - 1)
  ELSE <<m, sh>>

PackD(f) ==
  LET s == IF f.neg THEN 128 ELSE 0
  IN IF f.cls = "nan" THEN <<0, 0, 0, 0, 0, 0, 248, 127>>
     ELSE IF f.cls = "inf" THEN <<0, 0, 0, 0, 0, 0, 240, 127 + s>>
     ELSE IF f.mag8 = 0 THEN <<0, 0, 0, 0, 0, 0, 0, s>>
     ELSE LET n == Norm13(f.mag8, 0)
              e == n[2] + 1032
              m12 == n[1] - 4096
          IN <<0, 0, 0, 0, 0, m12 % 256, (e % 16) * 16 + (m12 \div 256), (e \div 16) + s>>

RECURSIVE Concat(_)
Concat(ss) == IF ss = <<>> THEN <<>> ELSE Head(ss) \o Concat(Tail(ss))

(* SYSTEMTIME: year, month, day of week, day, hour, minute, second, milliseconds *)
PackTime(t) == Concat([k \in 1..8 |-> PackH(t[k])])

PackOne(c, v) == IF c = "h" THEN PackH(v) ELSE IF c = "q" THEN PackQ(v) ELSE PackD(v)

RECURSIVE Fill(_, _)
Fill(c, n) == IF n <= 0 THEN <<>> ELSE <<c>> \o Fill(c, n - 1)

Reserved(n) == Fill(204, n)

CutTo(b, len) == SubSeq(b, 1, Min(len, Len(b)))

CuHeaderSize == 96

CuHeaderBytes(h) ==
  PackQ(h.nip) \o PackQ(h.spacecraft) \o PackQ(h.seans) \o Reserved(8)
  \o PackTime(h.begin) \o PackTime(h.end) \o PackQ(h.ns) \o PackQ(h.ng1)
  \o Reserved(16)

CuRecordBytes(r) ==
  PackTime(r.time)
  \o Concat([k \in 1..Len(CuRecordFmt) |-> PackOne(CuRecordFmt[k], r[CuRecordFields[k + 1]])])

ItnpHeaderSize == 96

ItnpHeaderBytes(h) ==
  PackQ(h.nip) \o PackQ(h.spacecraft) \o PackQ(h.seans) \o Reserved(8)
  \o PackTime(h.begin) \o PackTime(h.end) \o PackQ(h.ns) \o PackQ(h.ng1)
  \o Reserved(8) \o PackQ(h.delay)

(* 16 time, 64 + 8 + 2 head zone, the flag byte at 90, 21 unused, 24 tail zone *)
ItnpRecordBytes(r) ==
  PackTime(r.time)
  \o Concat([k \in 1..Len(ItnpRecordFmt) |-> PackOne(ItnpRecordFmt[k], r[ItnpRecordFields[k + 1]])])
  \o <<r.dost>> \o Fill(r.fill, 21)
  \o PackD(r.tmp) \o PackD(r.prs) \o PackD(r.hmd)

(***************************************************************************)
(* The values the enumerated files hold.                                   *)
(***************************************************************************)
MaxRecords == 2

CuHeaderBase ==
  [nip |-> 12512, spacecraft |-> 720, seans |-> 409031907,
   begin |-> <<2022, 9, 6, 3, 21, 0, 34, 500>>,
   end |-> <<2022, 9, 6, 3, 23, 10, 0, 0>>, ns |-> 3, ng1 |-> -2]

(* 2: a month of 13; 3: as 1 but for the milliseconds; 4: as 1 but for the weekday *)
CuHeaderVals ==
  << CuHeaderBase,
     [CuHeaderBase EXCEPT !.end = <<2022, 13, 6, 3, 23, 10, 0, 0>>],
     [CuHeaderBase EXCEPT !.begin = <<2022, 9, 6, 3, 21, 0, 34, 999>>],
     [CuHeaderBase EXCEPT !.begin = <<2022, 9, 2, 3, 21, 0, 34, 500>>] >>

CuRecordBase ==
  [time |-> <<2022, 9, 6, 3, 21, 0, 35, 250>>,
   az |-> Fin(1444), el |-> Fin(360), req_span |-> Fin(40), req_dis |-> Fin(8388608),
   req_vel |-> Fin(-2004), req_acc |-> Fin(1), req_nd1i |-> 100, req_nd2i |-> -100,
   req_n2i |-> 5000, req_n3i |-> 1000, res_del |-> Fin(76), res_dis |-> Fin(8388608),
   res_vel |-> Fin(2004), res_acc |-> Fin(1), res_n2rj |-> -5000, res_n3rj |-> -1000]

(* a second well-formed record, and one whose day does not exist (September 31) *)
CuRecordOther ==
  [CuRecordBase EXCEPT !.time = <<2022, 9, 6, 3, 21, 0, 36, 0>>, !.az = Fin(80),
                       !.req_nd1i = -7, !.res_n2rj = 9]
CuRecordBadTime == [CuRecordBase EXCEPT !.time = <<2022, 9, 6, 31, 21, 0, 35, 250>>]

(* one field of the base record replaced by a probe value *)
CuProbes ==
  << <<"az", Fin(0)>>, <<"az", Fin(2880)>>, <<"az", Fin(2881)>>, <<"az", Fin(-1)>>,
     <<"az", NaN>>, <<"az", Fin(8000)>>,
     <<"el", Fin(0)>>, <<"el", Fin(720)>>, <<"el", Fin(721)>>, <<"el", Fin(-1)>>,
     <<"req_span", Fin(0)>>, <<"req_span", Fin(80)>>, <<"req_dis", Fin(0)>>,
     <<"req_vel", Fin(0)>>, <<"req_acc", Fin(0)>>, <<"req_acc", Inf(FALSE)>>,
     <<"req_nd1i", 32767>>, <<"req_nd1i", 32768>>,
     <<"req_nd1i", -32768>>, <<"req_nd1i", -32769>>,
     <<"req_nd2i", 32767>>, <<"req_nd2i", 32768>>,
     <<"req_nd2i", -32768>>, <<"req_nd2i", -32769>>,
     <<"req_n2i", 12345678>>, <<"req_n2i", -1234567>>,
     <<"req_n3i", 131071>>, <<"req_n3i", 131072>>,
     <<"req_n3i", -131072>>, <<"req_n3i", -131073>>,
     <<"res_del", Fin(0)>>, <<"res_dis", Fin(-8)>>, <<"res_vel", Fin(0)>>,
     <<"res_acc", Fin(0)>>, <<"res_n2rj", 12345678>>,
     <<"res_n3rj", 131071>>, <<"res_n3rj", 131072>>,
     <<"res_n3rj", -131072>>, <<"res_n3rj", -131073>> >>

CuRecordVals ==
  <<CuRecordBase, CuRecordOther, CuRecordBadTime>>
  \o [k \in 1..Len(CuProbes) |-> [CuRecordBase EXCEPT ![CuProbes[k][1]] = CuProbes[k][2]]]

ItnpHeaderBase ==
  [nip |-> 32270, spacecraft |-> 720, seans |-> 409131756,
   begin |-> <<2022, 9, 2, 13, 20, 40, 10, 250>>,
   end |-> <<2022, 9, 2, 13, 22, 0, 0, 0>>, ns |-> 3, ng1 |-> -2, delay |-> 1234]

ItnpHeaderVals ==
  << ItnpHeaderBase,
     [ItnpHeaderBase EXCEPT !.begin = <<2022, 2, 2, 30, 20, 40, 10, 250>>] >>

(* dost is the flag byte, fill the value of the 21 unused bytes after it *)
ItnpRecordBase ==
  [time |-> <<2022, 9, 2, 13, 20, 40, 11, 125>>,
   di |-> 123456, nd1i |-> 100, nd2i |-> -100, nsk |-> 77, dn2ri |-> -5, n3ri |-> 6,
   of3 |-> 7, pf3 |-> -8, rat |-> Fin(100), pol |-> 500,
   dost |-> 3, fill |-> 0, tmp |-> Fin(164), prs |-> Fin(6000), hmd |-> Fin(480)]

ItnpRecordVals ==
  << ItnpRecordBase,
     [ItnpRecordBase EXCEPT !.dost = 0, !.fill = 255, !.tmp = Fin(-42)],
     [ItnpRecordBase EXCEPT !.dost = 1, !.prs = Fin(5964), !.hmd = Fin(280)],
     [ItnpRecordBase EXCEPT !.dost = 2, !.tmp = Fin(8), !.prs = Fin(0)],
     [ItnpRecordBase EXCEPT !.dost = 252, !.fill = 3, !.pol = -1],
     [ItnpRecordBase EXCEPT !.time = <<2022, 9, 2, 13, 24, 40, 11, 125>>] >>

SeqsUpTo(S, n) == UNION {[1..k -> S] : k \in 1..n}

CuFileBytes(f) ==
  IF f.hdr = 0 THEN None
  ELSE Some(CutTo(CuHeaderBytes(CuHeaderVals[f.hdr])
                  \o Concat([k \in 1..Len(f.recs) |-> CuRecordBytes(CuRecordVals[f.recs[k]])]),
                  f.len))

ItnpFileBytes(f) ==
  IF f.hdr = 0 THEN None
  ELSE Some(CutTo(ItnpHeaderBytes(ItnpHeaderVals[f.hdr])
                  \o Concat([k \in 1..Len(f.recs) |-> ItnpRecordBytes(ItnpRecordVals[f.recs[k]])]),
                  f.len))

NoFile == [hdr |-> 0, recs |-> <<>>, len |-> 0]

(* the path that does not open; header hdr whole; header 1 cut at each of cuts;
   header 1 and up to MaxRecords records of variants, the last one cut at each of tails *)
Files(hdrs, cuts, variants, tails, headerSize, recordSize) ==
  {NoFile}
  \cup {[hdr |-> h, recs |-> <<>>, len |-> headerSize] : h \in hdrs}
  \cup {[hdr |-> 1, recs |-> <<>>, len |-> n] : n \in cuts}
  \cup {[hdr |-> 1, recs |-> rs, len |-> headerSize + recordSize * (Len(rs) - 1) + t] :
          rs \in SeqsUpTo(variants, MaxRecords), t \in tails}

(***************************************************************************)
(* The enumerated files.                                                   *)
(***************************************************************************)
(* the header cut inside and at the end of its fields *)
CoreCuts == {0, 8, 40, 79, 80, 95}

CoreCuFiles == Files({1, 2}, CoreCuts, {1, 3}, {16, CuRecordSize}, CuHeaderSize, CuRecordSize)

CoreItnpFiles ==
  Files({1, 2}, CoreCuts, {1, 6}, {16, ItnpRecordSize}, ItnpHeaderSize, ItnpRecordSize)

(* every header length, every kind of tail of the last record *)
CuFiles ==
  Files({1, 2, 3, 4}, 0..CuHeaderSize, {1, 2, 3}, {1, 16, 143, CuRecordSize},
        CuHeaderSize, CuRecordSize)

ItnpFiles ==
  Files({1, 2}, 0..ItnpHeaderSize, 1..Len(ItnpRecordVals), {1, 90, ItnpRecordSize},
        ItnpHeaderSize, ItnpRecordSize)

(* whole files that decode: one record of every kind, and up to MaxRecords
   records of the kinds DocKinds (base, other, az nan, az 1000, req_span 10,
   req_nd1i 32768, req_n2i 12345678, res_vel 0) *)
DocKinds == {1, 2, 8, 9, 15, 21, 28, 36}

DocFiles ==
  {NoFile} \cup
  {[hdr |-> 1, recs |-> rs, len |-> CuHeaderSize + CuRecordSize * Len(rs)] :
     rs \in {<<>>} \cup {<<v>> : v \in (1..Len(CuRecordVals)) \ {3}}
            \cup SeqsUpTo(DocKinds, MaxRecords)}

(* what the try block of read() does with each file: a file is decoded once *)
CuDecoded == [f \in CoreCuFiles \cup CuFiles |-> CuReadBody(CuFileBytes(f))] @@ <<>>

ItnpDecoded == [f \in CoreItnpFiles \cup ItnpFiles |-> ItnpReadBody(ItnpFileBytes(f))] @@ <<>>

(***************************************************************************)
(* MainWindow.  A path is a str kept as a sequence of pieces, "/" and      *)
(* ".prognoz" being pieces of their own.  The QTabWidget self.tabs is the  *)
(* sequence of its pages [widget, name] and its current index (-1 without  *)
(* pages); pages and indices count from 0 as in Qt.  A QPlainTextEdit is   *)
(* an identity e with win.editors[e] = [text, path]: its plain text, and   *)
(* the path addFile created it for (kept for reference; the program holds  *)
(* that path in tabs_info only).                                           *)
(***************************************************************************)
TabInfo(index, path, editor) == [index |-> index, path |-> path, editor |-> editor]

(* the window after __init__ with paths = [] *)
WinInit ==
  [tabs |-> <<>>, current |-> -1, tabs_info |-> <<>>, editors |-> <<>>,
   visible |-> FALSE, closeEnabled |-> FALSE, saveEnabled |-> FALSE]

(* seq with its k-th element (from 1) deleted *)
Del(seq, k) == SubSeq(seq, 1, k - 1) \o SubSeq(seq, k + 1, Len(seq))

(* the first position (from 1) of seq whose element has field = v; 0 if none *)
FirstWith(seq, field, v) ==
  LET I == {i \in 1..Len(seq) : seq[i][field] = v}
  IN IF I = {} THEN 0 ELSE CHOOSE i \in I : \A j \in I : i <= j

(* os.path.basename: what follows the last "/" *)
basename(path) ==
  LET S == {i \in 1..Len(path) : path[i] = "/"}
  IN IF S = {} THEN path
     ELSE SubSeq(path, (CHOOSE i \in S : \A j \in S : j <= i) + 1, Len(path))

(* path.replace('.prognoz', '') + '.txt' *)
SaveName(path) == SelectSeq(path, LAMBDA x : x # ".prognoz") \o <<".txt">>

(* QTabWidget.count *)
TabCount(w) == Len(w.tabs)

(* QTabWidget.setCurrentIndex: an index that names no page is ignored *)
setCurrentIndex(w, index) ==
  IF index \in 0..(TabCount(w) - 1) THEN [w EXCEPT !.current = index] ELSE w

(* QTabWidget.addTab: the page goes last; the first page becomes current *)
addTab(w, editor, name) ==
  [w EXCEPT !.tabs = Append(@, [widget |-> editor, name |-> name]),
            !.current = IF TabCount(w) = 0 THEN 0 ELSE @]

(* QTabWidget.removeTab: the pages after index move down by one; the current
   page stays current, and when it is the one removed the page to its right
   (the last page, if there is none) becomes current *)
removeTab(w, index) ==
  IF index \notin 0..(TabCount(w) - 1) THEN w
  ELSE [w EXCEPT !.tabs = Del(@, index + 1),
                 !.current = IF index < @ THEN @ - 1
                             ELSE IF index = @ /\ index = TabCount(w) - 1 THEN @ - 1
                             ELSE @]

(* the editors the window can still reach, through a page or through tabs_info *)
Reachable(w) ==
  {w.tabs[k].widget : k \in 1..Len(w.tabs)}
    \cup {w.tabs_info[k].editor : k \in 1..Len(w.tabs_info)}

(* an editor that no page and no TabInfo refers to is gone *)
Collect(w) == [w EXCEPT !.editors = [e \in Reachable(w) |-> w.editors[e]]]

(* editor = QPlainTextEdit(): an identity that is not in use *)
NewEditor(w) ==
  CHOOSE e \in 1..(Cardinality(DOMAIN w.editors) + 1) :
    e \notin DOMAIN w.editors /\ \A d \in 1..(e - 1) : d \in DOMAIN w.editors

(* MainWindow.addFile *)
addFile(w, text, path) ==
  LET k == FirstWith(w.tabs_info, "path", path)
  IN IF k # 0
     THEN LET item == w.tabs_info[k]
          IN setCurrentIndex([w EXCEPT !.editors[item.editor].text = text], item.index)
     ELSE LET editor == NewEditor(w)
              tab_num == TabCount(w)
              w1 == [w EXCEPT !.editors =
                       [e \in DOMAIN @ \cup {editor} |->
                          IF e = editor THEN [text |-> text, path |-> path] ELSE @[e]]]
              w2 == setCurrentIndex(addTab(w1, editor, basename(path)), tab_num)
          IN [w2 EXCEPT !.tabs_info = Append(@, TabInfo(tab_num, path, editor)),
                        !.visible = TRUE, !.closeEnabled = TRUE, !.saveEnabled = TRUE]

(* MainWindow.closeTab *)
closeTab(w, index) ==
  LET w1 == removeTab(w, index)
      k == FirstWith(w1.tabs_info, "index", index)
      w2 == IF k # 0 THEN [w1 EXCEPT !.tabs_info = Del(@, k)] ELSE w1
      w3 == IF TabCount(w2) = 0
            THEN [w2 EXCEPT !.closeEnabled = FALSE, !.saveEnabled = FALSE,
                            !.visible = FALSE]
            ELSE w2
  IN Collect(w3)

(* MainWindow.onCloseAction *)
onCloseAction(w) == closeTab(w, w.current)

(* MainWindow.onSaveAsAction; accept: the save dialog is confirmed with the
   name it proposes, otherwise it is cancelled and returns ''.  The result is
   what the handler did: <<"no item">>, <<"cancelled", proposed name>>, or
   <<"written", item.path, path written, text written>> *)
onSaveAsAction(w, accept) ==
  LET index == w.current
      k == FirstWith(w.tabs_info, "index", index)
  IN IF k = 0 THEN <<"no item">>
     ELSE LET item == w.tabs_info[k]
              path == SaveName(item.path)
          IN IF ~accept THEN <<"cancelled", path>>
             ELSE <<"written", item.path, path, w.editors[item.editor].text>>

(***************************************************************************)
(* The paths and the files the window is given.                            *)
(***************************************************************************)
WinPaths == {<<"d", "/", "a", ".prognoz">>, <<"d", "/", "b", ".prognoz">>}

(* a tab is opened for a path that tabs_info does not hold, so there are never
   more tabs than paths *)
TabIndices == 0..(Cardinality(WinPaths) - 1)

(* one path, or two paths, at a time *)
WinPathLists == {<<p>> : p \in WinPaths} \cup {<<p, q>> : p, q \in WinPaths}

(* a path that does not decode, a header alone, a header and one record *)
WinFiles ==
  {NoFile,
   [hdr |-> 1, recs |-> <<>>, len |-> CuHeaderSize],
   [hdr |-> 1, recs |-> <<1>>, len |-> CuHeaderSize + CuRecordSize]}

(* cu = SrgCuFile(path) has run with outcome r; when it did not raise,
   cu.write_str() *)
Shown(r) == IF r.exc # "" THEN Raise(r.exc) ELSE write_str(r.self)

(* what SrgCuFile(path) and write_str() give for each file: a file is decoded
   and rendered once *)
WinShown == [f \in WinFiles |-> Shown(cu_read(CuInit, CuFileBytes(f)))] @@ <<>>

(* the body of the loop of MainWindow.openFiles, shown being the outcome of
   SrgCuFile(path) and write_str(): a path that does not decode shows a message
   box and adds nothing *)
openFile(w, path, shown) == IF shown.exc # "" THEN w ELSE addFile(w, shown.v, path)

(* MainWindow.openFiles; files[k] is what paths[k] holds when it is opened *)
RECURSIVE openFiles(_, _, _)
openFiles(w, paths, files) ==
  IF Len(paths) = 0 THEN w
  ELSE openFiles(openFile(w, Head(paths), WinShown[Head(files)]), Tail(paths), Tail(files))

(***************************************************************************)
(* The program: one SrgCuFile object cu, one SrgItnpFile object itnp, and  *)
(* call, the last call made: its method, the file it was given, the        *)
(* exception it raised ("" for none), its return value, and whether the    *)
(* object held a document when the call began.                             *)
(***************************************************************************)
Call(op, file, exc, ret, held) ==
  [op |-> op, file |-> file, exc |-> exc, ret |-> ret, held |-> held]

(* cu = SrgCuFile(); itnp = SrgItnpFile() *)
Init ==
  /\ cu = CuInit
  /\ itnp = ItnpInit
  /\ call = Call("init", NoFile, "", None, FALSE)
  /\ win = WinInit

(* cu.read(path of f) *)
CuRead(f) ==
  LET r == CuExcept(cu, CuDecoded[f])
  IN /\ cu' = r.self
     /\ call' = Call("cu.read", f, r.exc, None, ~empty(cu))
     /\ UNCHANGED <<itnp, win>>

(* itnp.read(path of f) *)
ItnpRead(f) ==
  LET r == ItnpExcept(itnp, ItnpDecoded[f])
  IN /\ itnp' = r.self
     /\ call' = Call("itnp.read", f, r.exc, None, itnp # ItnpInit)
     /\ UNCHANGED <<cu, win>>

(* cu.valid() *)
Valid ==
  /\ call' = Call("valid", NoFile, "", valid(cu), ~empty(cu))
  /\ UNCHANGED <<cu, itnp, win>>

(* cu.write_str() *)
WriteStr ==
  LET r == write_str(cu)
  IN /\ call' = Call("write_str", NoFile, r.exc, r.v, ~empty(cu))
     /\ UNCHANGED <<cu, itnp, win>>

(* both objects, each read any number of times *)
Next ==
  \/ \E f \in CoreCuFiles : CuRead(f)
  \/ \E f \in CoreItnpFiles : ItnpRead(f)

Spec == Init /\ [][Next]_vars

(* the targeting object alone *)
NextCu ==
  \/ \E f \in CuFiles : CuRead(f)
  \/ Valid
  \/ WriteStr

SpecCu == Init /\ [][NextCu]_vars

(* the measurement object alone *)
NextItnp == \E f \in ItnpFiles : ItnpRead(f)

SpecItnp == Init /\ [][NextItnp]_vars

(***************************************************************************)
(* Decoded documents: cu = SrgCuFile(path) for every file of DocFiles,     *)
(* cu = SrgCuFile() for the path that is None; then valid(), write_str().  *)
(***************************************************************************)
InitDoc ==
  /\ \E f \in DocFiles : cu = cu_read(CuInit, CuFileBytes(f)).self
  /\ itnp = ItnpInit
  /\ call = Call("init", NoFile, "", None, FALSE)
  /\ win = WinInit

NextDoc == Valid \/ WriteStr

SpecDoc == InitDoc /\ [][NextDoc]_vars
(***************************************************************************)
(* The main window: files are opened (menu, drag and drop), a tab is       *)
(* selected, a tab is closed by its button or by the menu, the current tab *)
(* is saved as text.                                                       *)
(***************************************************************************)
WinCall(op, ret) == Call(op, NoFile, "", ret, FALSE)

(* openFiles(paths), from onOpenAction or dropEvent *)
OpenFiles(paths, files) ==
  LET w == openFiles(win, paths, files)
  IN /\ win' = w
     /\ call' = WinCall("openFiles", paths)
     /\ UNCHANGED <<cu, itnp>>

(* the user selects the tab at index *)
SelectTab(index) ==
  /\ index \in 0..(TabCount(win) - 1)
  /\ win' = setCurrentIndex(win, index)
  /\ call' = WinCall("setCurrentIndex", <<index>>)
  /\ UNCHANGED <<cu, itnp>>

(* tabCloseRequested(index): the close button of the tab at index *)
CloseTab(index) ==
  /\ index \in 0..(TabCount(win) - 1)
  /\ win' = closeTab(win, index)
  /\ call' = WinCall("closeTab", <<index>>)
  /\ UNCHANGED <<cu, itnp>>

(* File -> Close *)
OnCloseAction ==
  /\ win.closeEnabled
  /\ win' = onCloseAction(win)
  /\ call' = WinCall("onCloseAction", <<win.current>>)
  /\ UNCHANGED <<cu, itnp>>

(* File -> Save as... *)
OnSaveAsAction(accept) ==
  /\ win.saveEnabled
  /\ call' = WinCall("onSaveAsAction", onSaveAsAction(win, accept))
  /\ UNCHANGED <<cu, itnp, win>>

NextWin ==
  \/ \E ps \in WinPathLists : \E fs \in [1..Len(ps) -> WinFiles] : OpenFiles(ps, fs)
  \/ \E i \in TabIndices : SelectTab(i)
  \/ \E i \in TabIndices : CloseTab(i)
  \/ OnCloseAction
  \/ \E accept \in BOOLEAN : OnSaveAsAction(accept)

SpecWin == Init /\ [][NextWin]_vars

(***************************************************************************)
(* What a file holds, read off its description.                            *)
(***************************************************************************)
CuHeaderFields == {"nip", "spacecraft", "seans", "begin", "end", "ns", "ng1"}

(* the date and the time of day of SYSTEMTIME t, to the second *)
SameSecond(dt, t) ==
  /\ dt.year = t[1] /\ dt.month = t[2] /\ dt.day = t[4]
  /\ dt.hour = t[5] /\ dt.minute = t[6] /\ dt.second = t[7]

HeaderHolds(self, h, ints) ==
  /\ \A n \in ints : self[n] = Some(h[n])
  /\ \A n \in {"begin", "end"} : self[n] # None /\ SameSecond(self[n][1], h[n])

CuRecordHolds(r, v) ==
  /\ SameSecond(r.time, v.time)
  /\ \A k \in 2..Len(CuRecordFields) : r[CuRecordFields[k]] = v[CuRecordFields[k]]

(* self holds the whole document of file f *)
CuHolds(self, f) ==
  /\ HeaderHolds(self, CuHeaderVals[f.hdr], {"nip", "spacecraft", "seans", "ns", "ng1"})
  /\ Len(self.records) = Len(f.recs)
  /\ \A k \in 1..Len(f.recs) : CuRecordHolds(self.records[k], CuRecordVals[f.recs[k]])

ItnpHolds(self, f) ==
  /\ HeaderHolds(self, ItnpHeaderVals[f.hdr],
                 {"nip", "spacecraft", "seans", "ns", "ng1", "delay"})
  /\ Len(self.records) = Len(f.recs)
  /\ \A k \in 1..Len(f.recs) :
       /\ self.records[k].time[1] = "datetime"
       /\ SameSecond(self.records[k].time[2], ItnpRecordVals[f.recs[k]].time)
       /\ self.records[k].di = PyInt(ItnpRecordVals[f.recs[k]].di)

(* C1: after any sequence of read() calls each object is empty or holds a whole
   document; a read() that raised left its object empty, whatever it held, and
   a read() that returned left in it the whole document of its file. *)
C1_AllOrNothing ==
  /\ cu = CuInit \/ \A n \in CuHeaderFields : cu[n] # None
  /\ itnp = ItnpInit \/ \A n \in CuHeaderFields \cup {"delay"} : itnp[n] # None
  /\ call.op = "cu.read" =>
       IF call.exc # "" THEN cu = CuInit ELSE CuHolds(cu, call.file)
  /\ call.op = "itnp.read" =>
       IF call.exc # "" THEN itnp = ItnpInit ELSE ItnpHolds(itnp, call.file)

(* a read() that raised inside a record, on an object that held a document *)
C1_Witness ==
  /\ call.op = "cu.read" /\ call.exc # "" /\ call.held
  /\ Len(call.file.recs) >= 1 /\ call.file.len > CuHeaderSize
  /\ cu = CuInit

(* the k-th 144-byte chunk after the header of file f *)
CuChunk(f, k) ==
  SubSeq(CuFileBytes(f)[1], CuHeaderSize + CuRecordSize * (k - 1) + 1,
         CuHeaderSize + CuRecordSize * k)

(* C2: a well-formed 96-byte header followed by L bytes: for L = N*144 with every
   record decoding, read yields exactly the N records in file order; for
   L mod 144 # 0 read raises and leaves no document. *)
C2_RecordCount ==
  (call.op = "cu.read" /\ call.file.hdr \in {1, 3, 4} /\ call.file.len >= CuHeaderSize) =>
    LET L == call.file.len - CuHeaderSize
        N == L \div CuRecordSize
    IN /\ (L % CuRecordSize = 0 /\ \A k \in 1..N : cu_record(CuChunk(call.file, k)).exc = "")
            => /\ call.exc = ""
               /\ Len(cu.records) = N
               /\ \A k \in 1..N :
                    CuRecordHolds(cu.records[k], CuRecordVals[call.file.recs[k]])
       /\ L % CuRecordSize # 0 => call.exc # "" /\ cu = CuInit

(* two different records read back in file order *)
C2_Witness ==
  /\ call.op = "cu.read" /\ call.exc = ""
  /\ call.file.recs = <<2, 1>> /\ call.file.len = CuHeaderSize + 2 * CuRecordSize
  /\ Len(cu.records) = 2 /\ cu.records[1].az = Fin(80) /\ cu.records[2].az = Fin(1444)

(* C3: a file shorter than the 96-byte header makes read raise and leaves no
   document. *)
C3_ShortHeaderFails ==
  (call.op = "cu.read" /\ call.file.hdr # 0 /\ call.file.len < CuHeaderSize) =>
    call.exc # "" /\ cu = CuInit

(* the byte at 0-based offset off of the k-th record of measurement file f *)
ItnpByte(f, k, off) ==
  ItnpFileBytes(f)[1][ItnpHeaderSize + ItnpRecordSize * (k - 1) + off + 1]

ItnpBytes(f, k, from, to) ==
  [i \in 1..(to - from) |-> ItnpByte(f, k, from + i - 1)]

(* C4: ddst is bit 0 and dvel is bit 1 of the byte at offset 90 of the record. *)
C4_FlagBits ==
  (call.op = "itnp.read" /\ call.exc = "") =>
    \A k \in 1..Len(itnp.records) :
      /\ itnp.records[k].ddst = PyInt(Bit(ItnpByte(call.file, k, ItnpRecordSize - 46), 0))
      /\ itnp.records[k].dvel = PyInt(Bit(ItnpByte(call.file, k, ItnpRecordSize - 46), 1))

(* C5: tmp, prs and hmd are the three float64 of bytes 112..119, 120..127 and
   128..135 of the record. *)
C5_Environment ==
  (call.op = "itnp.read" /\ call.exc = "") =>
    \A k \in 1..Len(itnp.records) :
      /\ itnp.records[k].tmp = PyFloat(F64(ItnpBytes(call.file, k, 112, 120)))
      /\ itnp.records[k].prs = PyFloat(F64(ItnpBytes(call.file, k, 120, 128)))
      /\ itnp.records[k].hmd = PyFloat(F64(ItnpBytes(call.file, k, 128, 136)))

(* C6: a timestamp window with a millisecond field m in 0..999 decodes to a
   date-time whose sub-second part is m milliseconds. *)
C6_Milliseconds ==
  (call.op = "cu.read" /\ call.exc = "") =>
    LET m == CuHeaderVals[call.file.hdr].begin[8]
    IN m \in 0..999 => cu.begin[1].microsecond = 1000 * m

(***************************************************************************)
(* The per-record rules of the validator as the specification lists them,  *)
(* over the reals: a nan is in no interval and is not positive.            *)
(***************************************************************************)
RuleNames ==
  <<"az", "el", "req_span", "req_dis", "req_vel", "req_acc", "req_nd1i", "req_nd2i",
    "req_n3i", "res_del", "res_dis", "res_vel", "res_acc", "res_n3rj">>

Between(f, lo, hi) == f.cls = "fin" /\ 8 * lo <= FloatVal(f) /\ FloatVal(f) <= 8 * hi
Positive(f) == (f.cls = "inf" /\ ~f.neg) \/ (f.cls = "fin" /\ FloatVal(f) > 0)
NonZero(f) == ~(f.cls = "fin" /\ f.mag8 = 0)

RuleHolds(k, r) ==
  CASE k = 1 -> Between(r.az, 0, 360)
    [] k = 2 -> Between(r.el, 0, 90)
    [] k = 3 -> Positive(r.req_span)
    [] k = 4 -> Positive(r.req_dis)
    [] k = 5 -> NonZero(r.req_vel)
    [] k = 6 -> Positive(r.req_acc)
    [] k = 7 -> r.req_nd1i \in -32768..32767
    [] k = 8 -> r.req_nd2i \in -32768..32767
    [] k = 9 -> r.req_n3i \in -131072..131071
    [] k = 10 -> Positive(r.res_del)
    [] k = 11 -> Positive(r.res_dis)
    [] k = 12 -> NonZero(r.res_vel)
    [] k = 13 -> Positive(r.res_acc)
    [] k = 14 -> r.res_n3rj \in -131072..131071

RulesHold(r) == \A k \in 1..Len(RuleNames) : RuleHolds(k, r)

HeaderSet(self) == \A n \in CuHeaderFields : self[n] # None

MinOf(S) == CHOOSE x \in S : \A y \in S : x <= y

(* the one failure of the fixed scan order: the lowest record that breaks a rule,
   and the first rule it breaks *)
FirstViolation(records) ==
  LET bad == {i \in 1..Len(records) : ~RulesHold(records[i])}
  IN IF bad = {} THEN Pass
     ELSE LET i == MinOf(bad)
              k == MinOf({j \in 1..Len(RuleNames) : ~RuleHolds(j, records[i])})
          IN err3(RuleNames[k], records[i][RuleNames[k]], i - 1)

FloatFields ==
  {"az", "el", "req_span", "req_dis", "req_vel", "req_acc",
   "res_del", "res_dis", "res_vel", "res_acc"}

NoNan(self) ==
  \A i \in 1..Len(self.records) : \A n \in FloatFields : self.records[i][n].cls # "nan"

(* C7: with the header set and at least one record, valid() returns (True, None)
   if and only if every record satisfies every rule. *)
C7_ValidIffRules ==
  (call.op = "valid" /\ HeaderSet(cu) /\ Len(cu.records) >= 1) =>
    ((call.ret = Pass) <=> \A i \in 1..Len(cu.records) : RulesHold(cu.records[i]))

(* C7 for the documents that hold no nan *)
C7_ValidIffRules_NoNan == NoNan(cu) => C7_ValidIffRules

(* C8: valid() reports the first failure of the scan order: "uninitialized" for
   the empty document before anything else, and for records the lowest
   violating record, by its 1-based index, with the first rule it violates. *)
C8_FirstFailure ==
  call.op = "valid" =>
    /\ empty(cu) => call.ret = err1("uninitialized")
    /\ (HeaderSet(cu) /\ Len(cu.records) >= 1) => call.ret = FirstViolation(cu.records)

(* C8 for the documents that hold no nan *)
C8_FirstFailure_NoNan == NoNan(cu) => C8_FirstFailure

(* C9: every data line of write_str() has the length of the column-header line,
   and each of its fields has exactly the declared width of its column. *)
C9_FixedColumns ==
  (call.op = "write_str" /\ call.exc = "") =>
    \A k \in 1..Len(cu.records) :
      /\ Len(call.ret[9 + k]) = Len(call.ret[9])
      /\ \A j \in 1..Len(ColumnWidths) :
           Len(DataFields(cu.records[k], k - 1)[j]) = ColumnWidths[j]

(* the codes the validator does not bound, set to any of these values *)
N2Values == {-1234567, 0, 12345678}

WithN2(self, g) ==
  [self EXCEPT !.records =
     [i \in 1..Len(self.records) |->
        [self.records[i] EXCEPT !.req_n2i = g[i][1], !.res_n2rj = g[i][2]]]]

(* C10: valid() returns the same (verdict, message) for every document that
   differs from cu only in the req_n2i and res_n2rj of its records, and leaves
   the document as it was. *)
C10_N2Unread ==
  [][call'.op = "valid" =>
       /\ cu' = cu
       /\ \A g \in [1..Len(cu.records) -> N2Values \X N2Values] :
            valid(WithN2(cu, g)) = call'.ret]_vars

(* an accepted document whose N2i has more digits than any bounded code *)
C10_Witness ==
  /\ call.op = "valid" /\ call.ret = Pass
  /\ Len(cu.records) >= 1 /\ cu.records[1].req_n2i = 12345678

(* C11: a document whose seven header fields are set and whose records are
   empty is never accepted: valid() returns (False, 'no records') for it, and a
   passing verdict implies at least one record. *)
C11_NoRecordsRejected ==
  call.op = "valid" =>
    /\ (HeaderSet(cu) /\ Len(cu.records) = 0) => call.ret = err1("no records")
    /\ call.ret = Pass => Len(cu.records) >= 1

(* valid() called on the document read from a file that holds only a header *)
C11_Witness ==
  /\ call.op = "valid" /\ call.ret = err1("no records")
  /\ HeaderSet(cu) /\ cu.nip = Some(CuHeaderVals[1].nip) /\ cu.records = <<>>

(* C12: after any sequence of addFile and closeTab, tabs_info has exactly one
   entry per open tab and every entry's index is the position its editor has in
   the tab widget; so Save As finds the entry of the current tab and writes the
   text of the current tab's file under the name made from its path. *)
C12_TabsInfoInSync ==
  /\ Len(win.tabs_info) = TabCount(win)
  /\ \A p \in 1..TabCount(win) :
       Cardinality({k \in 1..Len(win.tabs_info) :
                      win.tabs_info[k].editor = win.tabs[p].widget}) = 1
  /\ \A k \in 1..Len(win.tabs_info) :
       LET item == win.tabs_info[k]
       IN /\ item.index \in 0..(TabCount(win) - 1)
          /\ win.tabs[item.index + 1].widget = item.editor
          /\ win.editors[item.editor].path = item.path
  /\ call.op = "onSaveAsAction" =>
       LET shown == win.editors[win.tabs[win.current + 1].widget]
       IN /\ call.ret[1] # "no item"
          /\ call.ret[1] = "written" =>
               /\ call.ret[2] = shown.path
               /\ call.ret[3] = SaveName(shown.path)
               /\ call.ret[4] = shown.text

====
